---- MODULE Spec2Model ----
(***************************************************************************)
(* Model of gpio_control_node.py: four PWM servo channels driven by a      *)
(* polling loop that reads a command word from a file, maps it to a drive  *)
(* vector (steer_vehicle) and applies it with detach-on-zero (set_speeds), *)
(* and that detaches and closes every channel in a finally block.          *)
(*                                                                         *)
(* Floats are modelled in sign-magnitude form, the magnitude in            *)
(* thousandths, so that -0.0 and 0.0 are different values that compare     *)
(* equal, as in IEEE 754.  Every product of the table is exact at this     *)
(* scale (0.5 * 1.45 = 0.725, 0.5 * 1.3 = 0.65, ...).                      *)
(***************************************************************************)
EXTENDS Integers, Sequences, FiniteSets, TLC

VARIABLES pc, k, motors, control_word, vals, action, i, line_count, j, exc,
          readResult, errEvent, cycles, failStreak, stopStreak,
          content, before, steps, closes

vars == <<pc, k, motors, control_word, vals, action, i, line_count, j, exc,
          readResult, errEvent, cycles, failStreak, stopStreak,
          content, before, steps, closes>>

(* ------------------------------ bounds --------------------------------- *)
\* number of loop iterations after the first one
MaxCycles == 2
\* longest text of the control file, in characters, when every text is tried
MaxLen == 2
\* largest number written to the control file while the loop runs
MaxWord == 9
\* command codes handed to steer_vehicle on its own: -MaxNegCode..MaxPureCode
MaxNegCode == 3
MaxPureCode == 11

(* ------------------------------ floats --------------------------------- *)
Motors == 1..4

Zero == [neg |-> FALSE, mag |-> 0]

FNeg(a) == [neg |-> ~a.neg, mag |-> a.mag]

NegZero == FNeg(Zero)

FMul_add(a, c) == [neg |-> a.neg, mag |-> a.mag + c * 10]

\* a * c, the factor c given in hundredths (1.45 is 145)
FMul(a, c) == [neg |-> a.neg, mag |-> (a.mag * c) \div 100]

FloatEq_bits(a, b) == a = b

\* Python's == on floats: the two zeros are equal
FloatEq(a, b) == IF a.mag = 0 /\ b.mag = 0 THEN TRUE ELSE a = b

MAX_SPEED == 500

FORWARD == [neg |-> FALSE, mag |-> MAX_SPEED]

BACKWARD_unsigned == FORWARD

BACKWARD == FNeg(FORWARD)

(* ----------------------------- channels -------------------------------- *)
\* Servo.value: None (no signal) or a float
None == [none |-> TRUE, neg |-> FALSE, mag |-> 0]

Some(f) == [none |-> FALSE, neg |-> f.neg, mag |-> f.mag]

InitialValue_default == Some(Zero)

\* Servo(pin, initial_value=None)
InitialValue == None

NoMotor == [st |-> "unopened", value |-> None]

SetValue_keep(m, v) ==
    IF FloatEq(v, Zero)
    THEN [m EXCEPT !.value = None]
    ELSE IF m.value = None THEN [m EXCEPT !.value = Some(v)] ELSE m

SetValue_toggle(m, v) ==
    IF FloatEq(v, Zero) \/ m.value = Some(v)
    THEN [m EXCEPT !.value = None]
    ELSE [m EXCEPT !.value = Some(v)]

\* body of the loop of set_speeds for one motor
SetValue(m, v) ==
    IF FloatEq(v, Zero)
    THEN [m EXCEPT !.value = None]
    ELSE [m EXCEPT !.value = Some(v)]

\* set_speeds run to completion
set_speeds(ms, vs) == [n \in Motors |-> SetValue(ms[n], vs[n])]

(* ----------------------------- steering -------------------------------- *)
ZeroVector == <<Zero, Zero, Zero, Zero>>

\* the vector handed to set_speeds by steer_vehicle
DriveVector(c) ==
    CASE c = 1 -> <<FMul(FORWARD, 145), FNeg(FORWARD),
                    FMul(FORWARD, 145), FNeg(FORWARD)>>
      [] c = 2 -> <<BACKWARD, FMul(FNeg(BACKWARD), 130),
                    BACKWARD, FMul(FNeg(BACKWARD), 130)>>
      [] c = 3 -> <<FMul(FORWARD, 150), FMul(FNeg(BACKWARD), 150),
                    FMul(BACKWARD, 50), FMul(FNeg(FORWARD), 50)>>
      [] c = 4 -> <<FMul(BACKWARD, 50), FMul(FNeg(FORWARD), 50),
                    FMul(FORWARD, 150), FMul(FNeg(BACKWARD), 150)>>
      [] c = 5 -> <<FMul(BACKWARD, 150), FMul(FNeg(FORWARD), 150),
                    FMul(BACKWARD, 150), FMul(FNeg(FORWARD), 150)>>
      [] c = 6 -> <<FMul(FORWARD, 150), FMul(FNeg(BACKWARD), 150),
                    FMul(FORWARD, 150), FMul(FNeg(BACKWARD), 150)>>
      [] c = 7 -> <<Zero, FMul(FNeg(FORWARD), 50),
                    FMul(FORWARD, 150), Zero>>
      [] c = 8 -> <<FMul(FORWARD, 150), NegZero,
                    Zero, FMul(FNeg(FORWARD), 50)>>
      [] OTHER -> <<Zero, Zero, Zero, Zero>>

\* the label returned by steer_vehicle
DriveAction(c) ==
    CASE c = 1 -> "FORWARD"
      [] c = 2 -> "BACKWART"
      [] c = 3 -> "LEFT"
      [] c = 4 -> "RIGHT"
      [] c = 5 -> "TURN-LEFT"
      [] c = 6 -> "TURN-RIGHT"
      [] c = 7 -> "DIAGONAL-LEFT"
      [] c = 8 -> "DIAGONAL-RIGHT"
      [] OTHER -> "STOP (Detached)"

(* --------------------------- command file ------------------------------ *)
Digits == {"0", "1", "2", "3", "4", "5", "6", "7", "8", "9"}

\* "s2" stands for a superscript two: str.isdigit() accepts it, int() does not;
\* "a3" for an Arabic-Indic digit three: isdigit() and int() both accept it;
\* "nl" for a newline
Chars == Digits \cup {" ", "nl", "-", "x", "s2", "a3"}

Whitespace == {" ", "nl"}

\* every text of at most MaxLen characters
Contents == UNION {[1..n -> Chars] : n \in 0..MaxLen}

DigitVal(ch) ==
    CASE ch = "0" -> 0 [] ch = "1" -> 1 [] ch = "2" -> 2 [] ch = "3" -> 3
      [] ch = "4" -> 4 [] ch = "5" -> 5 [] ch = "6" -> 6 [] ch = "7" -> 7
      [] ch = "8" -> 8 [] ch = "9" -> 9 [] ch = "a3" -> 3 [] OTHER -> 0

RECURSIVE LStrip(_)
LStrip(s) == IF s # <<>> /\ Head(s) \in Whitespace THEN LStrip(Tail(s)) ELSE s

RECURSIVE RStrip(_)
RStrip(s) ==
    IF s # <<>> /\ s[Len(s)] \in Whitespace THEN RStrip(SubSeq(s, 1, Len(s) - 1)) ELSE s

Strip_left(s) == LStrip(s)

\* str.strip()
Strip(s) == RStrip(LStrip(s))

\* str.isdigit()
IsDigit(s) ==
    s # <<>> /\ \A n \in 1..Len(s) : s[n] \in Digits \cup {"s2", "a3"}

\* int(content) raises ValueError
IntRaises(s) == \E n \in 1..Len(s) : s[n] \notin Digits \cup {"a3"}

RECURSIVE ParseInt(_)
\* int(content) on decimal digits
ParseInt(s) ==
    IF s = <<>> THEN 0
    ELSE 10 * ParseInt(SubSeq(s, 1, Len(s) - 1)) + DigitVal(s[Len(s)])

RECURSIVE Decimal(_)
\* the decimal text of a number
Decimal(n) ==
    IF n < 10 THEN <<CHOOSE ch \in Digits : DigitVal(ch) = n>>
    ELSE Append(Decimal(n \div 10), CHOOSE ch \in Digits : DigitVal(ch) = n % 10)

\* the texts found in the control file while the loop runs: the numbers up
\* to MaxWord, and texts that are empty, padded, signed or not numbers
LoopContents ==
    {Decimal(n) : n \in 0..MaxWord} \cup
    {<<>>, <<" ">>, <<"7", "nl">>, <<"-", "3">>, <<"x">>, <<"s2">>, <<"a3">>}

FallbackCode_stale(prev) == prev

\* control_word = 0 at the top of every iteration
FallbackCode(prev) == 0

(* ------------------------- module-level start -------------------------- *)
CyclePcs == {"read", "steer", "apply", "report", "sleep"}

Init ==
    /\ pc = "init"
    /\ k = 0
    /\ motors = [n \in Motors |-> NoMotor]
    /\ control_word = 0
    /\ vals = ZeroVector
    /\ action = ""
    /\ i = 0
    /\ line_count = 0
    /\ j = 0
    /\ exc = "none"
    /\ readResult = "none"
    /\ errEvent = FALSE
    /\ cycles = 0
    /\ failStreak = 0
    /\ stopStreak = 0
    /\ content = <<>>
    /\ before = motors
    /\ steps = <<>>
    /\ closes = [n \in Motors |-> 0]

\* init_motor(pin) returns a Servo
InitMotorOk ==
    /\ pc = "init"
    /\ k < 4
    /\ motors' = [motors EXCEPT ![k + 1] = [st |-> "open", value |-> InitialValue]]
    /\ k' = k + 1
    /\ before' = motors'
    /\ UNCHANGED <<content, steps, closes>>
    /\ UNCHANGED <<pc, control_word, vals, action, i, line_count, j, exc,
                   readResult, errEvent, cycles, failStreak, stopStreak>>

\* Servo(pin, ...) raises: init_motor prints and calls sys.exit(1)
InitMotorFail ==
    /\ pc = "init"
    /\ k < 4
    /\ exc' = "InitError"
    /\ pc' = "exited"
    /\ UNCHANGED <<content, before, steps, closes>>
    /\ UNCHANGED <<k, motors, control_word, vals, action, i, line_count, j,
                   readResult, errEvent, cycles, failStreak, stopStreak>>

\* all_motors is built and main() is called
EnterMain ==
    /\ pc = "init"
    /\ k = 4
    /\ pc' = "main"
    /\ UNCHANGED <<content, before, steps, closes>>
    /\ UNCHANGED <<k, motors, control_word, vals, action, i, line_count, j, exc,
                   readResult, errEvent, cycles, failStreak, stopStreak>>

\* the banner of main(), up to the try statement
MainPrologue ==
    /\ pc = "main"
    /\ line_count' = 0
    /\ pc' = "read"
    /\ UNCHANGED <<content, before, steps, closes>>
    /\ UNCHANGED <<k, motors, control_word, vals, action, i, j, exc,
                   readResult, errEvent, cycles, failStreak, stopStreak>>

\* Ctrl-C outside the try statement of main(): nothing catches it
InterruptBeforeTry ==
    /\ pc \in {"init", "main"}
    /\ exc' = "KeyboardInterrupt"
    /\ pc' = "exited"
    /\ UNCHANGED <<content, before, steps, closes>>
    /\ UNCHANGED <<k, motors, control_word, vals, action, i, line_count, j,
                   readResult, errEvent, cycles, failStreak, stopStreak>>

(* ------------------------------ the cycle ------------------------------ *)
\* lines 125-127 on the text returned by f.read(): the stripped content, the
\* control word, and how the read ended
ReadOutcome(raw, prev) ==
    LET s == Strip(raw) IN
      IF IsDigit(s)
      THEN IF IntRaises(s)
           THEN [content |-> s, word |-> FallbackCode(prev),
                 result |-> "valueerror", err |-> TRUE]
           ELSE [content |-> s, word |-> ParseInt(s),
                 result |-> "ok", err |-> FALSE]
      ELSE [content |-> s, word |-> FallbackCode(prev),
            result |-> "malformed", err |-> FALSE]

\* the file exists and is read
ReadFile ==
    /\ pc = "read"
    /\ \E raw \in LoopContents :
         LET r == ReadOutcome(raw, control_word) IN
           /\ content' = r.content
           /\ control_word' = r.word
           /\ readResult' = r.result
           /\ errEvent' = r.err
           /\ failStreak' = IF r.result = "ok" THEN 0 ELSE failStreak + 1
    /\ steps' = Append(steps, "read")
    /\ pc' = "steer"
    /\ UNCHANGED <<k, motors, vals, action, i, line_count, j, exc, cycles,
                   stopStreak, before, closes>>

\* os.path.exists is false
ReadAbsent ==
    /\ pc = "read"
    /\ control_word' = FallbackCode(control_word)
    /\ readResult' = "absent"
    /\ errEvent' = TRUE
    /\ failStreak' = failStreak + 1
    /\ pc' = "steer"
    /\ steps' = Append(steps, "read")
    /\ UNCHANGED <<content, before, closes>>
    /\ UNCHANGED <<k, motors, vals, action, i, line_count, j, exc, cycles,
                   stopStreak>>

\* open() or read() raises
ReadRaises ==
    /\ pc = "read"
    /\ control_word' = FallbackCode(control_word)
    /\ readResult' = "raised"
    /\ errEvent' = TRUE
    /\ failStreak' = failStreak + 1
    /\ pc' = "steer"
    /\ steps' = Append(steps, "read")
    /\ UNCHANGED <<content, before, closes>>
    /\ UNCHANGED <<k, motors, vals, action, i, line_count, j, exc, cycles,
                   stopStreak>>

\* steer_vehicle up to its call of set_speeds
Steer ==
    /\ pc = "steer"
    /\ vals' = DriveVector(control_word)
    /\ i' = 1
    /\ pc' = "apply"
    /\ before' = motors
    /\ steps' = Append(steps, "map")
    /\ UNCHANGED <<content, closes>>
    /\ UNCHANGED <<k, motors, control_word, action, line_count, j, exc,
                   readResult, errEvent, cycles, failStreak, stopStreak>>

ApplyStep_reversed ==
    /\ pc = "apply"
    /\ i \in Motors
    /\ motors' = [motors EXCEPT ![5 - i] = SetValue(motors[5 - i], vals[5 - i])]
    /\ i' = i + 1
    /\ IF i = 4
       THEN /\ pc' = "report"
            /\ action' = DriveAction(control_word)
            /\ stopStreak' = IF vals = ZeroVector THEN stopStreak + 1 ELSE 0
       ELSE UNCHANGED <<pc, action, stopStreak>>
    /\ steps' = Append(steps, "apply")
    /\ UNCHANGED <<content, before, closes>>
    /\ UNCHANGED <<k, control_word, vals, line_count, j, exc, readResult,
                   errEvent, cycles, failStreak>>

ApplyStep_short ==
    /\ pc = "apply"
    /\ i \in Motors
    /\ motors' = [motors EXCEPT ![i] = SetValue(motors[i], vals[i])]
    /\ i' = i + 1
    /\ IF i >= 3
       THEN /\ pc' = "report"
            /\ action' = DriveAction(control_word)
            /\ stopStreak' = IF vals = ZeroVector THEN stopStreak + 1 ELSE 0
       ELSE UNCHANGED <<pc, action, stopStreak>>
    /\ steps' = Append(steps, "apply")
    /\ UNCHANGED <<content, before, closes>>
    /\ UNCHANGED <<k, control_word, vals, line_count, j, exc, readResult,
                   errEvent, cycles, failStreak>>

\* one iteration of the loop of set_speeds; the last one returns to main
ApplyStep ==
    /\ pc = "apply"
    /\ i \in Motors
    /\ motors' = [motors EXCEPT ![i] = SetValue(motors[i], vals[i])]
    /\ i' = i + 1
    /\ IF i = 4
       THEN /\ pc' = "report"
            /\ action' = DriveAction(control_word)
            /\ stopStreak' = IF vals = ZeroVector THEN stopStreak + 1 ELSE 0
       ELSE UNCHANGED <<pc, action, stopStreak>>
    /\ steps' = Append(steps, "apply")
    /\ UNCHANGED <<content, before, closes>>
    /\ UNCHANGED <<k, control_word, vals, line_count, j, exc, readResult,
                   errEvent, cycles, failStreak>>

\* the assignment to motor.value raises
SetterRaises ==
    /\ pc = "apply"
    /\ i \in Motors
    /\ exc' = "SetterError"
    /\ pc' = "finally"
    /\ j' = 1
    /\ UNCHANGED <<content, before, steps, closes>>
    /\ UNCHANGED <<k, motors, control_word, vals, action, i, line_count,
                   readResult, errEvent, cycles, failStreak, stopStreak>>

\* the status line is printed
ReportOk ==
    /\ pc = "report"
    /\ line_count' = 1
    /\ pc' = "sleep"
    /\ steps' = Append(steps, "report")
    /\ UNCHANGED <<content, before, closes>>
    /\ UNCHANGED <<k, motors, control_word, vals, action, i, j, exc,
                   readResult, errEvent, cycles, failStreak, stopStreak>>

\* print raises: only KeyboardInterrupt is caught, the finally block runs
ReportRaises ==
    /\ pc = "report"
    /\ exc' = "SinkError"
    /\ pc' = "finally"
    /\ j' = 1
    /\ UNCHANGED <<content, before, steps, closes>>
    /\ UNCHANGED <<k, motors, control_word, vals, action, i, line_count,
                   readResult, errEvent, cycles, failStreak, stopStreak>>

\* time.sleep returns and the loop starts over
Sleep ==
    /\ pc = "sleep"
    /\ cycles < MaxCycles
    /\ cycles' = cycles + 1
    /\ pc' = "read"
    /\ steps' = <<>>
    /\ UNCHANGED <<content, before, closes>>
    /\ UNCHANGED <<k, motors, control_word, vals, action, i, line_count, j,
                   exc, readResult, errEvent, failStreak, stopStreak>>

(* ------------------------------ shutdown ------------------------------- *)
\* Ctrl-C inside the try statement
Interrupt ==
    /\ pc \in CyclePcs
    /\ exc' = "KeyboardInterrupt"
    /\ pc' = "interrupted"
    /\ UNCHANGED <<content, before, steps, closes>>
    /\ UNCHANGED <<k, motors, control_word, vals, action, i, line_count, j,
                   readResult, errEvent, cycles, failStreak, stopStreak>>

\* except KeyboardInterrupt: the message is printed
InterruptHandler ==
    /\ pc = "interrupted"
    /\ exc' = "none"
    /\ pc' = "finally"
    /\ j' = 1
    /\ UNCHANGED <<content, before, steps, closes>>
    /\ UNCHANGED <<k, motors, control_word, vals, action, i, line_count,
                   readResult, errEvent, cycles, failStreak, stopStreak>>

\* Ctrl-C inside the handler: the finally block runs with it pending
InterruptInHandler ==
    /\ pc = "interrupted"
    /\ exc' = "KeyboardInterrupt"
    /\ pc' = "finally"
    /\ j' = 1
    /\ UNCHANGED <<content, before, steps, closes>>
    /\ UNCHANGED <<k, motors, control_word, vals, action, i, line_count,
                   readResult, errEvent, cycles, failStreak, stopStreak>>

\* one iteration of the finally loop: motor.value = None; motor.close()
FinallyStep ==
    /\ pc = "finally"
    /\ j \in Motors
    /\ motors' = [motors EXCEPT ![j] = [st |-> "closed", value |-> None]]
    /\ j' = j + 1
    /\ closes' = [closes EXCEPT ![j] = @ + 1]
    /\ UNCHANGED <<content, before, steps>>
    /\ UNCHANGED <<pc, k, control_word, vals, action, i, line_count, exc,
                   readResult, errEvent, cycles, failStreak, stopStreak>>

\* motor.value = None raises in the finally loop
FinallySetterRaises ==
    /\ pc = "finally"
    /\ j \in Motors
    /\ exc' = "DetachError"
    /\ pc' = "exited"
    /\ UNCHANGED <<content, before, steps, closes>>
    /\ UNCHANGED <<k, motors, control_word, vals, action, i, line_count, j,
                   readResult, errEvent, cycles, failStreak, stopStreak>>

\* motor.close() raises in the finally loop, after motor.value = None
FinallyCloseRaises ==
    /\ pc = "finally"
    /\ j \in Motors
    /\ motors' = [motors EXCEPT ![j].value = None]
    /\ exc' = "CloseError"
    /\ pc' = "exited"
    /\ UNCHANGED <<content, before, steps, closes>>
    /\ UNCHANGED <<k, control_word, vals, action, i, line_count, j,
                   readResult, errEvent, cycles, failStreak, stopStreak>>

\* Ctrl-C inside the finally loop
InterruptInFinally ==
    /\ pc = "finally"
    /\ j \in Motors
    /\ exc' = "KeyboardInterrupt"
    /\ pc' = "exited"
    /\ UNCHANGED <<content, before, steps, closes>>
    /\ UNCHANGED <<k, motors, control_word, vals, action, i, line_count, j,
                   readResult, errEvent, cycles, failStreak, stopStreak>>

FinallyDone_resume ==
    /\ pc = "finally"
    /\ j = 5
    /\ pc' = "read"
    /\ UNCHANGED <<content, before, steps, closes>>
    /\ UNCHANGED <<k, motors, control_word, vals, action, i, line_count, j,
                   exc, readResult, errEvent, cycles, failStreak, stopStreak>>

\* the finally loop is over: last message, a pending exception leaves main
FinallyDone ==
    /\ pc = "finally"
    /\ j = 5
    /\ pc' = "exited"
    /\ UNCHANGED <<content, before, steps, closes>>
    /\ UNCHANGED <<k, motors, control_word, vals, action, i, line_count, j,
                   exc, readResult, errEvent, cycles, failStreak, stopStreak>>

Next ==
    \/ InitMotorOk
    \/ InitMotorFail
    \/ EnterMain
    \/ MainPrologue
    \/ InterruptBeforeTry
    \/ ReadFile
    \/ ReadAbsent
    \/ ReadRaises
    \/ Steer
    \/ ApplyStep
    \/ SetterRaises
    \/ ReportOk
    \/ ReportRaises
    \/ Sleep
    \/ Interrupt
    \/ InterruptHandler
    \/ InterruptInHandler
    \/ FinallyStep
    \/ FinallySetterRaises
    \/ FinallyCloseRaises
    \/ InterruptInFinally
    \/ FinallyDone

Spec == Init /\ [][Next]_vars

(* --------------- steer_vehicle and set_speeds on their own -------------- *)
\* the nonzero values a channel can hold: the components of the vectors
PriorValues ==
    {None} \cup
    {Some(f) : f \in {DriveVector(c)[n] : c \in 1..8, n \in Motors} \ {Zero, NegZero}}

PureInit ==
    /\ pc = "p_call"
    /\ k = 4
    /\ motors \in [Motors -> {[st |-> "open", value |-> v] : v \in PriorValues}]
    /\ control_word \in (0 - MaxNegCode)..MaxPureCode
    /\ vals = ZeroVector
    /\ action = ""
    /\ i = 0
    /\ line_count = 0
    /\ j = 0
    /\ exc = "none"
    /\ readResult = "none"
    /\ errEvent = FALSE
    /\ cycles = 0
    /\ failStreak = 0
    /\ stopStreak = 0
    /\ content = <<>>
    /\ before = motors
    /\ steps = <<>>
    /\ closes = [n \in Motors |-> 0]

\* steer_vehicle(control_word), its call of set_speeds included
PureSteer ==
    /\ pc = "p_call"
    /\ vals' = DriveVector(control_word)
    /\ motors' = set_speeds(motors, DriveVector(control_word))
    /\ action' = DriveAction(control_word)
    /\ pc' = "p_once"
    /\ before' = motors
    /\ UNCHANGED <<content, steps, closes>>
    /\ UNCHANGED <<k, control_word, i, line_count, j, exc, readResult,
                   errEvent, cycles, failStreak, stopStreak>>

\* set_speeds called again with the same four values
PureReapply ==
    /\ pc = "p_once"
    /\ motors' = set_speeds(motors, vals)
    /\ pc' = "p_twice"
    /\ before' = motors
    /\ UNCHANGED <<content, steps, closes>>
    /\ UNCHANGED <<k, control_word, vals, action, i, line_count, j, exc,
                   readResult, errEvent, cycles, failStreak, stopStreak>>

PureNext ==
    \/ PureSteer
    \/ PureReapply

PureSpec == PureInit /\ [][PureNext]_vars

(* ---------------------- the read on every short text ------------------- *)
ParseInit ==
    /\ pc = "read"
    /\ k = 4
    /\ motors = [n \in Motors |-> [st |-> "open", value |-> InitialValue]]
    /\ control_word = 0
    /\ vals = ZeroVector
    /\ action = ""
    /\ i = 0
    /\ line_count = 0
    /\ j = 0
    /\ exc = "none"
    /\ readResult = "none"
    /\ errEvent = FALSE
    /\ cycles = 0
    /\ failStreak = 0
    /\ stopStreak = 0
    /\ content \in Contents
    /\ before = motors
    /\ steps = <<>>
    /\ closes = [n \in Motors |-> 0]

\* the file exists and f.read() returns the text held in content
ReadGiven ==
    /\ pc = "read"
    /\ LET r == ReadOutcome(content, control_word) IN
         /\ content' = r.content
         /\ control_word' = r.word
         /\ readResult' = r.result
         /\ errEvent' = r.err
         /\ failStreak' = IF r.result = "ok" THEN 0 ELSE failStreak + 1
    /\ steps' = Append(steps, "read")
    /\ pc' = "steer"
    /\ UNCHANGED <<k, motors, vals, action, i, line_count, j, exc, cycles,
                   stopStreak, before, closes>>

ParseNext ==
    \/ ReadGiven
    \/ ReadAbsent
    \/ ReadRaises

ParseSpec == ParseInit /\ [][ParseNext]_vars

(* ------------------------------- claims -------------------------------- *)
Detached(n) == motors[n].value = None

AllDetached == \A n \in Motors : Detached(n)

\* C1: after a completed set_speeds in the loop, a channel is detached iff
\* the component commanded for it is zero of either sign, and otherwise it
\* carries exactly the commanded value.
C1_DetachIffZero ==
    pc \in {"report", "sleep"} =>
        \A n \in Motors :
            IF vals[n].mag = 0
            THEN motors[n].value = None
            ELSE motors[n].value = Some(vals[n])

C1_Witness ==
    /\ pc = "report"
    /\ control_word = 8
    /\ vals[2] = NegZero
    /\ motors[2].value = None
    /\ motors[1].value = Some([neg |-> FALSE, mag |-> 750])

\* C2: once the finally block has been entered, every channel has had its
\* shutdown attempted and is detached when the process exits, also when
\* the shutdown of one channel raised.
C2_ShutdownTotality ==
    (pc = "exited" /\ j > 0 /\ exc # "KeyboardInterrupt") =>
        (j >= 4 /\ AllDetached)

\* C3: when the initialization of a channel fails, every channel initialized
\* before it is closed and detached when the process exits.
C3_FailTogether ==
    (pc = "exited" /\ exc = "InitError") =>
        \A n \in 1..k : motors[n].st = "closed" /\ Detached(n)

Dec(sign, m) == [neg |-> sign < 0, mag |-> m]

\* the table of the specification, in thousandths
TableVector(c) ==
    CASE c = 1 -> <<Dec(1, 725), Dec(-1, 500), Dec(1, 725), Dec(-1, 500)>>
      [] c = 2 -> <<Dec(-1, 500), Dec(1, 650), Dec(-1, 500), Dec(1, 650)>>
      [] c = 3 -> <<Dec(1, 750), Dec(1, 750), Dec(-1, 250), Dec(-1, 250)>>
      [] c = 4 -> <<Dec(-1, 250), Dec(-1, 250), Dec(1, 750), Dec(1, 750)>>
      [] c = 5 -> <<Dec(-1, 750), Dec(-1, 750), Dec(-1, 750), Dec(-1, 750)>>
      [] c = 6 -> <<Dec(1, 750), Dec(1, 750), Dec(1, 750), Dec(1, 750)>>
      [] c = 7 -> <<Dec(1, 0), Dec(-1, 250), Dec(1, 750), Dec(1, 0)>>
      [] c = 8 -> <<Dec(1, 750), Dec(-1, 0), Dec(1, 0), Dec(-1, 250)>>
      [] OTHER -> <<Dec(1, 0), Dec(1, 0), Dec(1, 0), Dec(1, 0)>>

\* C5: for every integer code steer_vehicle hands set_speeds the vector of
\* the table, with FORWARD = 0.5 and BACKWARD = -0.5, and the all-zero
\* vector for every code outside 1..8.
C5_MapperTable ==
    pc \in {"p_once", "p_twice"} =>
        /\ FORWARD = Dec(1, 500)
        /\ BACKWARD = Dec(-1, 500)
        /\ vals = TableVector(control_word)
        /\ control_word \notin 1..8 => vals = TableVector(0)

C5_Witness ==
    /\ pc = "p_once"
    /\ control_word < 0
    /\ vals = ZeroVector
    /\ AllDetached

TableLabel(c) ==
    CASE c = 1 -> "FORWARD"
      [] c = 2 -> "BACKWARD"
      [] c = 3 -> "LEFT"
      [] c = 4 -> "RIGHT"
      [] c = 5 -> "TURN-LEFT"
      [] c = 6 -> "TURN-RIGHT"
      [] c = 7 -> "DIAGONAL-LEFT"
      [] c = 8 -> "DIAGONAL-RIGHT"
      [] OTHER -> "STOP"

\* C6: the label returned by steer_vehicle and printed for the cycle is the
\* label of the table.
C6_LabelTable ==
    pc \in {"report", "sleep"} => action = TableLabel(control_word)

\* C7: a process that left the loop through the finally block has all four
\* channels detached when it has exited.
C7_ExitDetached ==
    (pc = "exited" /\ j > 0) => AllDetached

\* C8: a print of the status line that raises leaves the loop running with
\* the vector of the cycle still applied.
C8_SinkIsolated ==
    exc = "SinkError" =>
        /\ pc \in CyclePcs
        /\ \A n \in Motors : motors[n] = SetValue(motors[n], vals[n])

\* C9: the loop runs only with all four channels opened, they are all
\* detached when the first read starts, and after a failed initialization
\* set_speeds is never entered.
C9_RunningAfterInit ==
    /\ pc \in CyclePcs => (k = 4 /\ \A n \in Motors : motors[n].st = "open")
    /\ (pc = "read" /\ cycles = 0) => AllDetached
    /\ exc = "InitError" => (pc = "exited" /\ i = 0 /\ AllDetached)

C9_Witness ==
    /\ pc = "read"
    /\ cycles = 0
    /\ k = 4
    /\ \A n \in Motors : motors[n] = [st |-> "open", value |-> None]

\* C10: calling set_speeds a second time with the same vector leaves every
\* channel as the first call left it, whatever the channels held before.
C10_ApplyIdempotent ==
    [][(pc = "p_once" /\ pc' = "p_twice") => motors' = motors]_vars

C10_Witness ==
    /\ pc = "p_twice"
    /\ control_word = 7
    /\ Detached(1)
    /\ motors[2].value = Some([neg |-> TRUE, mag |-> 250])
    /\ motors[3].value = Some([neg |-> FALSE, mag |-> 750])
    /\ Detached(4)

\* C11: once the finally loop has run through, no step of the cycle is taken
\* any more and the exited process does nothing; a closed channel stays
\* closed and detached; no channel is ever closed twice, and after the
\* loop every channel has been closed exactly once.
C11_TerminatedOnce ==
    /\ [][/\ pc = "exited" => (pc' = "exited" /\ motors' = motors)
          /\ j = 5 => (pc' \in {"finally", "exited"} /\ steps' = steps)
          /\ \A n \in Motors :
                motors[n].st = "closed" =>
                    (motors'[n].st = "closed" /\ motors'[n].value = None)]_vars
    /\ [](\A n \in Motors : closes[n] <= 1)
    /\ [](j = 5 => \A n \in Motors : closes[n] = 1 /\ motors[n].st = "closed")

C11_Witness ==
    /\ pc = "exited"
    /\ j = 5
    /\ cycles >= 1
    /\ \A n \in Motors : closes[n] = 1 /\ motors[n].st = "closed"

DecimalValue(ch) ==
    CASE ch = "0" -> 0 [] ch = "1" -> 1 [] ch = "2" -> 2 [] ch = "3" -> 3
      [] ch = "4" -> 4 [] ch = "5" -> 5 [] ch = "6" -> 6 [] ch = "7" -> 7
      [] ch = "8" -> 8 [] ch = "9" -> 9 [] ch = "a3" -> 3 [] OTHER -> -1

AllDecimal(s) == s # <<>> /\ \A n \in 1..Len(s) : DecimalValue(s[n]) >= 0

RECURSIVE Pow10(_)
Pow10(n) == IF n = 0 THEN 1 ELSE 10 * Pow10(n - 1)

RECURSIVE ValueOf(_)
ValueOf(s) ==
    IF s = <<>> THEN 0
    ELSE DecimalValue(Head(s)) * Pow10(Len(s) - 1) + ValueOf(Tail(s))

Trimmed(s) ==
    s = <<>> \/ (s[1] \notin {" ", "nl"} /\ s[Len(s)] \notin {" ", "nl"})

C13_VectorInRange ==
    pc \in {"p_once", "p_twice"} =>
        \A n \in Motors :
            /\ vals[n].mag <= 750
            /\ vals[n].mag <= 1000
            /\ motors[n].value.mag <= 1000

C13_Witness ==
    /\ pc = "p_once"
    /\ control_word = 5
    /\ \A n \in Motors : vals[n] = Dec(-1, 750) /\ motors[n].value = Some(Dec(-1, 750))

CycleOrder == <<"read", "map", "apply", "apply", "apply", "apply", "report">>

Applied(n) == IF vals[n].mag = 0 THEN None ELSE Some(vals[n])

\* C14: the steps of a cycle are taken in the order read, map, four channel
\* updates, report, each once; when the status line is printed the control
\* word is the one read in this cycle, the label and the vector are those of
\* that control word, and all four channels have been updated.
C14_CycleOrder ==
    /\ \E n \in 0..Len(CycleOrder) : steps = SubSeq(CycleOrder, 1, n)
    /\ pc = "report" => steps = SubSeq(CycleOrder, 1, 6)
    /\ pc = "sleep" => steps = CycleOrder
    /\ pc \in {"report", "sleep"} =>
          /\ i = 5
          /\ readResult = "ok" => control_word = ValueOf(content)
          /\ readResult # "ok" => control_word = 0
          /\ vals = DriveVector(control_word)
          /\ action = DriveAction(control_word)
          /\ \A n \in Motors : motors[n].value = Applied(n)

C14_Witness ==
    /\ pc = "sleep"
    /\ cycles = 1
    /\ steps = CycleOrder
    /\ control_word = 3
    /\ action = "LEFT"

\* C15: a cycle whose read failed has written an error to stderr, and no
\* exception is pending.
C15_ReadErrorSurfaced ==
    (pc \in {"steer", "apply", "report", "sleep"} /\ readResult # "ok") =>
        (errEvent /\ exc = "none")

ChannelFor(c, n) ==
    IF TableVector(c)[n].mag = 0 THEN None ELSE Some(TableVector(c)[n])

\* C16: after a completed cycle the four channels hold what the control word
\* of that cycle alone determines, whatever they held before.
C16_Memoryless ==
    pc \in {"report", "sleep"} =>
        \A n \in Motors : motors[n].value = ChannelFor(control_word, n)

C16_Witness ==
    /\ pc = "sleep"
    /\ cycles >= 1
    /\ control_word = 7
    /\ before[1].value # None
    /\ before[2].value # motors[2].value
    /\ Detached(1)

Mixed(idx) ==
    \A n \in Motors :
        IF n < idx THEN motors[n].value = Applied(n) ELSE motors[n] = before[n]

\* C17: inside set_speeds the channels before the loop index hold the new
\* vector and the others what they held when set_speeds was entered; a
\* Ctrl-C or an error inside set_speeds hands exactly this state to the
\* finally loop.
C17_PartialApply ==
    /\ pc = "apply" => (i \in Motors /\ Mixed(i))
    /\ ((pc = "interrupted" \/ (pc = "finally" /\ j = 1)) /\ i \in Motors)
          => Mixed(i)

C17_Witness ==
    /\ pc = "finally"
    /\ j = 1
    /\ i = 3
    /\ motors[1].value = Some(Dec(1, 750))
    /\ motors[2].value = Some(Dec(1, 750))
    /\ motors[3].value = Some(Dec(-1, 750))
    /\ motors[4].value = Some(Dec(-1, 750))

\* C18: a Ctrl-C that arrives in the finally loop entered after a handled
\* Ctrl-C leaves all four channels detached when the process exits.
C18_SecondInterrupt ==
    [][(pc = "finally" /\ exc = "none" /\ exc' = "KeyboardInterrupt"
           /\ pc' = "exited")
          => \A n \in Motors : motors'[n].value = None]_vars

====
